---- MODULE Spec2Model ----
(***************************************************************************)
(* A model of qem-bot's incident derivation logic:                         *)
(*   - openqabot/types/incident.py : Incident.__init__, _rev,              *)
(*     _is_livepatch, has_failures, filter_failures, has_ignored_comment   *)
(*   - openqabot/smeltsync.py      : SMELTSync.__call__, _create_record    *)
(*     and the review-request helpers                                     *)
(* Python str values are TLA+ strings; Python None is the empty tuple and  *)
(* a present optional value v is the one-element tuple <<v>>.              *)
(***************************************************************************)
EXTENDS Integers, Sequences, FiniteSets, TLC

VARIABLES
    \* ---- Incident.__init__ (incident.py) ----
    incident,      \* the raw dict handed to Incident(...)
    self,          \* self.rr, project, id, rrid, staging, embargoed, priority, emu
    channels,      \* self.channels
    packages,      \* self.packages
    tmpdict,       \* _rev: local tmpdict, in insertion order
    rev,           \* _rev: local rev
    answers,       \* what get_max_revision returned, one per query issued
    revisions,     \* self.revisions (None until _rev returns)
    livepatch,     \* self.livepatch (None until assigned)
    incPc,         \* position inside Incident.__init__
    \* ---- Incident.has_failures (incident.py) ----
    id,            \* self.id
    results,       \* local results of has_failures
    comments,      \* job_id -> comment texts served by openQA
    failed_jobs,   \* local failed_jobs of has_failures
    hasFailures,   \* the returned value (None until returned)
    gatePc,        \* position inside has_failures
    \* ---- SMELTSync (smeltsync.py) ----
    incidents,     \* self.incidents
    dry,           \* self.dry
    data,          \* __call__: local data
    ret,           \* __call__: local ret (None until assigned)
    sinkCalls,     \* the arguments of every update_incidents call, in order
    sinkStatus,    \* what update_incidents returned, one per call
    returned,      \* the value __call__ returned (None until it returns)
    syncPc,        \* position inside SMELTSync.__call__
    \* ---- SMELTSync._create_record applied to one raw incident ----
    inc,           \* the raw SMELT incident
    record         \* the record _create_record returned (None until it returns)

incVars  == <<incident, self, channels, packages, tmpdict, rev, answers, revisions,
              livepatch, incPc>>
gateVars == <<id, results, comments, failed_jobs, hasFailures, gatePc>>
syncVars == <<incidents, dry, data, ret, sinkCalls, sinkStatus, returned, syncPc>>
recVars  == <<inc, record>>
vars     == <<incVars, gateVars, syncVars, recVars>>

None == <<>>
Some(v) == <<v>>

(***************************************************************************)
(* Bounds of the model                                                     *)
(***************************************************************************)
MaxChannels == 2
MaxPackages == 2
MaxResults == 2
MaxComments == 1
MaxRequests == 2
MaxIncidents == 2

\* All sequences over S of length at most n
SeqUpTo(S, n) == UNION {[1..k -> S] : k \in 0..n}

(***************************************************************************)
(* Python built-ins used by the code                                       *)
(***************************************************************************)
\* str.startswith
startswith(s, prefix) ==
    /\ Len(s) >= Len(prefix)
    /\ SubSeq(s, 1, Len(prefix)) = prefix

\* `sub in s` for two str values: substring containment
str_contains(s, sub) ==
    \E i \in 1..(Len(s) - Len(sub) + 1) : SubSeq(s, i, i + Len(sub) - 1) = sub

RECURSIVE split_from(_, _, _, _, _)
split_from(s, sep, i, cur, acc) ==
    IF i > Len(s) THEN Append(acc, cur)
    ELSE IF SubSeq(s, i, i) = sep
         THEN split_from(s, sep, i + 1, "", Append(acc, cur))
         ELSE split_from(s, sep, i + 1, cur \o SubSeq(s, i, i), acc)

\* str.split(sep) for a one-character separator
split(s, sep) == split_from(s, sep, 1, "", <<>>)

Digits == {"0", "1", "2", "3", "4", "5", "6", "7", "8", "9"}

\* index just past the longest run of digits of s that starts at i
RECURSIVE digits_end(_, _)
digits_end(s, i) ==
    IF i <= Len(s) /\ SubSeq(s, i, i) \in Digits THEN digits_end(s, i + 1) ELSE i

DigitValue(c) ==
    CASE c = "0" -> 0 [] c = "1" -> 1 [] c = "2" -> 2 [] c = "3" -> 3
      [] c = "4" -> 4 [] c = "5" -> 5 [] c = "6" -> 6 [] c = "7" -> 7
      [] c = "8" -> 8 [] c = "9" -> 9

RECURSIVE int_from(_, _, _)
int_from(s, i, acc) ==
    IF i > Len(s) THEN acc
    ELSE int_from(s, i + 1, acc * 10 + DigitValue(SubSeq(s, i, i)))

\* int(s) for a string of decimal digits
int(s) == int_from(s, 1, 0)

\* [f(x) for x in seq]
Map(seq, f(_)) == [i \in 1..Len(seq) |-> f(seq[i])]

\* seq[n:]
DropFirst(seq, n) == SubSeq(seq, n + 1, Len(seq))

\* one step of a stable sort by key=len: x goes after every element that is
\* not longer than it
RECURSIVE insert_by_len(_, _, _)
insert_by_len(sorted, x, i) ==
    IF i > Len(sorted) \/ Len(sorted[i]) > Len(x)
    THEN SubSeq(sorted, 1, i - 1) \o <<x>> \o SubSeq(sorted, i, Len(sorted))
    ELSE insert_by_len(sorted, x, i + 1)

RECURSIVE sorted_from(_, _, _)
sorted_from(seq, i, acc) ==
    IF i > Len(seq) THEN acc
    ELSE sorted_from(seq, i + 1, insert_by_len(acc, seq[i], 1))

\* sorted(seq, key=len)
sorted_by_len(seq) == sorted_from(seq, 1, <<>>)

(***************************************************************************)
(* incident.py: Incident.__init__                                          *)
(***************************************************************************)
Repos(p, v, a) == [product |-> p, version |-> v, arch |-> a]
ArchVer(a, v) == [arch |-> a, version |-> v]

\* r.split(":")[2:] for r in incident["channels"] if r.startswith("SUSE:Updates")
channel_vals(raw) ==
    LET prefixed == SelectSeq(raw, LAMBDA r : startswith(r, "SUSE:Updates"))
        tail(r) == DropFirst(split(r, ":"), 2)
    IN  Map(prefixed, tail)

\* lines 29-41: the three-token channels
channels_3(raw) ==
    LET three == SelectSeq(channel_vals(raw), LAMBDA val : Len(val) = 3)
        kept  == SelectSeq(three,
                     LAMBDA val : val[1] # "SLE-Module-Development-Tools-OBS")
        mk(val) == Repos(val[1], val[2], val[3])
    IN  Map(kept, mk)

\* lines 44-56: the two-token channels, arch defaulted to x86_64
channels_2(raw) ==
    LET two == SelectSeq(channel_vals(raw), LAMBDA val : Len(val) = 2)
        mk(val) == Repos(val[1], val[2], "x86_64")
    IN  Map(two, mk)

\* lines 59-66: remove Manager-Server on aarch64
drop_manager_aarch64(chans) ==
    SelectSeq(chans, LAMBDA chan :
        ~(chan.product = "SLE-Module-SUSE-Manager-Server" /\ chan.arch = "aarch64"))

\* lines 29-66: the value of self.channels before the emptiness check
parse_channels(raw) == drop_manager_aarch64(channels_3(raw) \o channels_2(raw))

\* re.match(version_pattern, s): None, or <<group(0)>>
\* version_pattern = (\d+(?:[.-](?:SP)?\d+)?)
version_match(s) ==
    LET e1 == digits_end(s, 1)
        sepOK == e1 <= Len(s) /\ SubSeq(s, e1, e1) \in {".", "-"}
        j == e1 + 1
        hasSP == j + 1 <= Len(s) /\ SubSeq(s, j, j + 1) = "SP"
        k == IF hasSP THEN j + 2 ELSE j
        e2 == digits_end(s, k)
    IN  IF e1 = 1 THEN None
        ELSE IF sepOK /\ e2 > k THEN Some(SubSeq(s, 1, e2 - 1))
        ELSE Some(SubSeq(s, 1, e1 - 1))

\* _rev lines 97-100
normalized_version(version) ==
    LET v == version_match(version)
    IN  IF v # None THEN v[1] ELSE version

\* index of key in tmpdict, 0 when absent
RECURSIVE key_index(_, _, _)
key_index(td, key, i) ==
    IF i > Len(td) THEN 0
    ELSE IF td[i].key = key THEN i
    ELSE key_index(td, key, i + 1)

\* _rev lines 102-107: one iteration of the grouping loop
tmpdict_add(td, repo) ==
    LET key == ArchVer(repo.arch, normalized_version(repo.version))
        at  == key_index(td, key, 1)
        item == <<repo.product, repo.version>>
    IN  IF at # 0
        THEN [td EXCEPT ![at].repos = Append(@, item)]
        ELSE Append(td, [key |-> key, repos |-> <<item>>])

RECURSIVE tmpdict_from(_, _, _)
tmpdict_from(chans, i, td) ==
    IF i > Len(chans) THEN td
    ELSE tmpdict_from(chans, i + 1, tmpdict_add(td, chans[i]))

\* _rev lines 94-107
group_channels(chans) == tmpdict_from(chans, 1, <<>>)

\* _rev lines 113-114 (mutant: a revision of 0 is stored)
store_rev_nonneg(r, archver, max_rev) ==
    IF max_rev >= 0 THEN (archver :> max_rev) @@ r ELSE r

\* _rev lines 113-114
store_rev(r, archver, max_rev) ==
    IF max_rev > 0 THEN (archver :> max_rev) @@ r ELSE r

is_kernel(package) ==
    \/ startswith(package, "kernel-default")
    \/ startswith(package, "kernel-source")
    \/ startswith(package, "kernel-azure")

is_kgraft(package) ==
    \/ startswith(package, "kgraft-patch-")
    \/ startswith(package, "kernel-livepatch")

\* (mutant: the loop stops at the first kernel package and keeps the flag)
RECURSIVE livepatch_loop_break(_, _, _)
livepatch_loop_break(pkgs, i, kgraft) ==
    IF i > Len(pkgs) THEN kgraft
    ELSE IF is_kernel(pkgs[i]) THEN kgraft
    ELSE livepatch_loop_break(pkgs, i + 1, kgraft \/ is_kgraft(pkgs[i]))

_is_livepatch_break(pkgs) == livepatch_loop_break(pkgs, 1, FALSE)

\* _is_livepatch lines 132-144: the loop from package i on
RECURSIVE livepatch_loop(_, _, _)
livepatch_loop(pkgs, i, kgraft) ==
    IF i > Len(pkgs) THEN kgraft
    ELSE IF is_kernel(pkgs[i]) THEN FALSE
    ELSE livepatch_loop(pkgs, i + 1, kgraft \/ is_kgraft(pkgs[i]))

_is_livepatch(pkgs) == livepatch_loop(pkgs, 1, FALSE)

\* line 68 (mutant: the check is missing)
channels_check_missing(chans) == FALSE

\* line 68: `if not self.channels`
channels_empty(chans) == chans = <<>>

\* line 72: `if not self.packages`
packages_empty(pkgs) == pkgs = <<>>

ChannelPool == {
    "SUSE:Updates:SLE-Module-Development-Tools-OBS:15-SP4:x86_64",
    "SUSE:Updates:SLE-Module-Development-Tools-OBS:15-SP4",
    "SUSE:Updates:SLE-Module-Foo:15-SP4:x86_64",
    "SUSE:Updates:SLE-Module-Foo:12-SP3-extra:aarch64",
    "SUSE:Updates:SLE-Module-SUSE-Manager-Server:4.3:aarch64",
    "SUSE:Updates:openSUSE-SLE:15.4",
    "openSUSE:Updates:Leap:15.4:x86_64" }

PackagePool == {
    "vim",
    "kernel-default",
    "kgraft-patch-SLE15",
    "kernel-livepatch-tools",
    "kernel-source-vanilla-debuginfo" }

\* what get_max_revision may return; raising NoRepoFoundError is separate
RevisionPool == {-1, 0, 1}

RawIncidents ==
    [ rr_number : {Some(301)},
      project   : {"SUSE:Maintenance:100"},
      number    : {100},
      inReview  : {TRUE},
      embargoed : {FALSE},
      emu       : {FALSE},
      priority  : {None},
      channels  : SeqUpTo(ChannelPool, MaxChannels),
      packages  : SeqUpTo(PackagePool, MaxPackages) ]

IncIdle ==
    /\ incident = None
    /\ self = None
    /\ channels = None
    /\ packages = None
    /\ tmpdict = <<>>
    /\ rev = <<>>
    /\ answers = <<>>
    /\ revisions = None
    /\ livepatch = None
    /\ incPc = "idle"

IncInit ==
    /\ incident \in RawIncidents
    /\ self = None
    /\ channels = None
    /\ packages = None
    /\ tmpdict = <<>>
    /\ rev = <<>>
    /\ answers = <<>>
    /\ revisions = None
    /\ livepatch = None
    /\ incPc = "start"

\* lines 21-27: the scalar attributes; emu is assigned on line 75
scalar_attributes(raw) ==
    [ rr        |-> raw.rr_number,
      project   |-> raw.project,
      id        |-> raw.number,
      rrid      |-> IF raw.rr_number # None
                    THEN Some(raw.project \o ":" \o ToString(raw.rr_number[1]))
                    ELSE None,
      staging   |-> ~raw.inReview,
      embargoed |-> raw.embargoed,
      priority  |-> raw.priority,
      emu       |-> None ]

\* lines 21-66
ParseChannels ==
    /\ incPc = "start"
    /\ self' = scalar_attributes(incident)
    /\ channels' = parse_channels(incident.channels)
    /\ incPc' = "channels"
    /\ UNCHANGED <<incident, packages, tmpdict, rev, answers, revisions, livepatch>>
    /\ UNCHANGED <<gateVars, syncVars, recVars>>

\* lines 68-69
RaiseEmptyChannels ==
    /\ incPc = "channels"
    /\ channels_empty(channels)
    /\ incPc' = "EmptyChannels"
    /\ UNCHANGED <<incident, self, channels, packages, tmpdict, rev, answers, revisions,
                   livepatch>>
    /\ UNCHANGED <<gateVars, syncVars, recVars>>

\* line 71
SortPackages ==
    /\ incPc = "channels"
    /\ ~channels_empty(channels)
    /\ packages' = sorted_by_len(incident.packages)
    /\ incPc' = "packages"
    /\ UNCHANGED <<incident, self, channels, tmpdict, rev, answers, revisions, livepatch>>
    /\ UNCHANGED <<gateVars, syncVars, recVars>>

\* lines 72-73
RaiseEmptyPackages ==
    /\ incPc = "packages"
    /\ packages_empty(packages)
    /\ incPc' = "EmptyPackagesError"
    /\ UNCHANGED <<incident, self, channels, packages, tmpdict, rev, answers, revisions,
                   livepatch>>
    /\ UNCHANGED <<gateVars, syncVars, recVars>>

\* lines 75-76 and _rev lines 93-107: enter _rev and group the channels
GroupChannels ==
    /\ incPc = "packages"
    /\ ~packages_empty(packages)
    /\ self' = [self EXCEPT !.emu = Some(incident.emu)]
    /\ tmpdict' = group_channels(channels)
    /\ rev' = <<>>
    /\ incPc' = "rev"
    /\ UNCHANGED <<incident, channels, packages, answers, revisions, livepatch>>
    /\ UNCHANGED <<gateVars, syncVars, recVars>>

\* _rev lines 110-114: the next group's query returns a revision
QueryRevision ==
    /\ incPc = "rev"
    /\ Len(answers) < Len(tmpdict)
    /\ \E max_rev \in RevisionPool :
         /\ answers' = Append(answers, Some(max_rev))
         /\ rev' = store_rev(rev, tmpdict[Len(answers) + 1].key, max_rev)
    /\ UNCHANGED <<incident, self, channels, packages, tmpdict, revisions, livepatch, incPc>>
    /\ UNCHANGED <<gateVars, syncVars, recVars>>

\* _rev lines 115-116: the next group's query raises NoRepoFoundError, which
\* leaves _rev and __init__
QueryNotFound ==
    /\ incPc = "rev"
    /\ Len(answers) < Len(tmpdict)
    /\ answers' = Append(answers, None)
    /\ incPc' = "NoRepoFoundError"
    /\ UNCHANGED <<incident, self, channels, packages, tmpdict, rev, revisions, livepatch>>
    /\ UNCHANGED <<gateVars, syncVars, recVars>>

\* _rev line 118 and __init__ lines 76-77
FinishInit ==
    /\ incPc = "rev"
    /\ Len(answers) = Len(tmpdict)
    /\ revisions' = Some(rev)
    /\ livepatch' = Some(_is_livepatch(packages))
    /\ incPc' = "constructed"
    /\ UNCHANGED <<incident, self, channels, packages, tmpdict, rev, answers>>
    /\ UNCHANGED <<gateVars, syncVars, recVars>>

(***************************************************************************)
(* incident.py: Incident.has_failures                                      *)
(***************************************************************************)
\* regex.match(comment["text"]) with regex = ACCEPTABLE_FOR_INCIDENT_REGEXP % inc:
\* the text starts with the marker for this incident, followed by some text
acceptable_for_incident(text, i) ==
    LET marker == "@review:acceptable_for:incident_" \o ToString(i) \o ":"
    IN  startswith(text, marker) /\ Len(text) > Len(marker)

\* has_ignored_comment lines 197-208; cm is what openQA serves
has_ignored_comment(job_id, i, cm) ==
    \E k \in 1..Len(cm[job_id]) : acceptable_for_incident(cm[job_id][k].text, i)

\* filter_failures lines 181-187; ("passed") is the str "passed", so
\* `not in` is a substring test
filter_failures(res, i, cm) ==
    SelectSeq(res, LAMBDA r :
        /\ ~str_contains("passed", r.status)
        /\ ~has_ignored_comment(r.job_id, i, cm))

\* line 166 (mutant: the check is missing)
no_results_never(res) == FALSE

\* line 166: `if not results`
no_results(res) == res = <<>>

\* line 172: any(failed_jobs); every job is a non-empty dict, hence truthy
any(jobs) == jobs # <<>>

StatusPool == {"passed", "failed", "pass", ""}

CommentPool == {
    [text |-> "@review:acceptable_for:incident_100:known issue"],
    [text |-> "@review:acceptable_for:incident_101:known issue"],
    [text |-> "label:force_result:failed"] }

IncidentIds == {100}

\* job results: job_id is the position in the dashboard's answer
ResultLists ==
    UNION { {[k \in 1..n |-> [job_id |-> k, status |-> st[k]]] : st \in [1..n -> StatusPool]}
            : n \in 0..MaxResults }

GateIdle ==
    /\ id = None
    /\ results = None
    /\ comments = None
    /\ failed_jobs = None
    /\ hasFailures = None
    /\ gatePc = "idle"

GateInit ==
    /\ id \in IncidentIds
    /\ results = None
    /\ comments = None
    /\ failed_jobs = None
    /\ hasFailures = None
    /\ gatePc = "start"

\* lines 154-156: the dashboard answers
FetchResults ==
    /\ gatePc = "start"
    /\ results' \in ResultLists
    /\ gatePc' = "fetched"
    /\ UNCHANGED <<id, comments, failed_jobs, hasFailures>>
    /\ UNCHANGED <<incVars, syncVars, recVars>>

\* lines 158-164: filter_failures, which asks openQA for each job's comments
FilterFailures ==
    /\ gatePc = "fetched"
    /\ \E cm \in [1..Len(results) -> SeqUpTo(CommentPool, MaxComments)] :
         /\ comments' = cm
         /\ failed_jobs' = filter_failures(results, id, cm)
    /\ gatePc' = "filtered"
    /\ UNCHANGED <<id, results, hasFailures>>
    /\ UNCHANGED <<incVars, syncVars, recVars>>

\* lines 166-169
RaiseNoResults ==
    /\ gatePc = "filtered"
    /\ no_results(results)
    /\ gatePc' = "NoResultsError"
    /\ UNCHANGED <<id, results, comments, failed_jobs, hasFailures>>
    /\ UNCHANGED <<incVars, syncVars, recVars>>

\* line 172
ReturnFailures ==
    /\ gatePc = "filtered"
    /\ ~no_results(results)
    /\ hasFailures' = Some(any(failed_jobs))
    /\ gatePc' = "returned"
    /\ UNCHANGED <<id, results, comments, failed_jobs>>
    /\ UNCHANGED <<incVars, syncVars, recVars>>

(***************************************************************************)
(* smeltsync.py: SMELTSync                                                 *)
(***************************************************************************)
ValidStatus == {"new", "review", "accepted", "revoked"}

\* index of the first request with the greatest requestId:
\* sorted(requestSet, key=itemgetter("requestId"), reverse=True)[0]
RECURSIVE max_request_from(_, _, _)
max_request_from(requestSet, i, best) ==
    IF i > Len(requestSet) THEN best
    ELSE IF requestSet[i].requestId > requestSet[best].requestId
         THEN max_request_from(requestSet, i + 1, i)
         ELSE max_request_from(requestSet, i + 1, best)

\* lines 37-46
_review_rrequest(requestSet) ==
    IF requestSet = <<>> THEN None
    ELSE LET rr == requestSet[max_request_from(requestSet, 2, 1)]
         IN  IF rr.status.name \in ValidStatus THEN Some(rr) ELSE None

\* lines 48-56
_is_inreview(rr_number) ==
    IF rr_number.reviewSet # <<>>
    THEN rr_number.status.name = "review"
    ELSE FALSE

\* lines 58-66
_is_revoked(rr_number) ==
    IF rr_number.reviewSet # <<>>
    THEN rr_number.status.name = "revoked"
    ELSE FALSE

\* lines 68-76
_is_accepted(rr_number) ==
    \/ rr_number.status.name = "accepted"
    \/ rr_number.status.name = "new"

\* lines 78-85
_has_qam_review(rr_number) ==
    IF rr_number.reviewSet # <<>>
    THEN LET rr == SelectSeq(rr_number.reviewSet,
                       LAMBDA r : r.assignedByGroup # None)
             review == SelectSeq(rr,
                       LAMBDA r : r.assignedByGroup[1].name = "qam-openqa")
         IN  review # <<>> /\ review[1].status.name \in {"review", "new"}
    ELSE FALSE

\* lines 90, 107-108 (mutant: a revoked request leaves the incident active)
is_active_unless_approved(approved, revoked) == ~approved

\* lines 90, 107-108
is_active(approved, revoked) == IF approved \/ revoked THEN FALSE ELSE TRUE

\* seq[-1]
Last(seq) == seq[Len(seq)]

\* bool(x) for an optional str
bool(x) == x # None /\ x[1] # ""

\* lines 87-121
_create_record(i) ==
    LET rr_number == _review_rrequest(i.requestSet)
        found == rr_number # None
        inReview == IF found THEN _is_inreview(rr_number[1]) ELSE FALSE
        approved == IF found THEN _is_accepted(rr_number[1]) ELSE FALSE
        inReviewQAM == IF found THEN _has_qam_review(rr_number[1]) ELSE FALSE
        revoked == IF found THEN _is_revoked(rr_number[1]) ELSE FALSE
        pkgname(package) == package.name
        reponame(repo) == repo.name
    IN  [ isActive    |-> is_active(approved, revoked),
          project     |-> i.project,
          number      |-> int(Last(split(i.project, ":"))),
          emu         |-> i.emu,
          packages    |-> Map(i.packages, pkgname),
          channels    |-> Map(i.repositories, reponame),
          inReview    |-> inReview,
          approved    |-> approved,
          rr_number   |-> IF found THEN Some(rr_number[1].requestId) ELSE None,
          inReviewQAM |-> inReviewQAM,
          embargoed   |-> bool(i.crd) ]

\* lines 123-125
_create_list(incs) == Map(incs, _create_record)

\* line 29 (mutant: the dry flag is ignored)
syncs_always(d) == TRUE

\* line 29: `if not self.dry`
syncs(d) == ~d

Review(group, status) == [assignedByGroup |-> group, status |-> [name |-> status]]

\* the review sets SMELT may attach to a request
ReviewSetPool == {
    <<>>,
    <<Review(Some([name |-> "qam-openqa"]), "review")>>,
    <<Review(Some([name |-> "qam-openqa"]), "accepted")>>,
    <<Review(Some([name |-> "qam-openqa"]), "accepted"),
      Review(Some([name |-> "qam-openqa"]), "review")>>,
    <<Review(None, "review"), Review(Some([name |-> "qam-openqa"]), "new")>>,
    <<Review(Some([name |-> "qam-sle"]), "review")>> }

RequestStatusPool == {"new", "review", "accepted", "revoked", "declined"}

\* the orders in which n requests can carry the requestIds 1..n
IdOrders(n) == {f \in [1..n -> 1..n] : \A a, b \in 1..n : f[a] = f[b] => a = b}

\* a request set of n requests
RequestSet(n, ids, st, rs) ==
    [k \in 1..n |-> [requestId |-> ids[k],
                     status    |-> [name |-> st[k]],
                     reviewSet |-> rs[k]]]

\* a raw SMELT incident
SmeltIncident(requestSet, crd) ==
    [ project      |-> "SUSE:Maintenance:100",
      emu          |-> FALSE,
      packages     |-> <<[name |-> "vim"]>>,
      repositories |-> <<[name |-> "SUSE:Updates:SLE-Module-Foo:15-SP4:x86_64"]>>,
      requestSet   |-> requestSet,
      crd          |-> crd ]

CrdPool == {None, Some("2024-05-01")}

\* the incidents a run synchronises: no request, or one request
SyncIncidentPool ==
    {SmeltIncident(<<>>, None)} \cup
    { SmeltIncident(RequestSet(1, <<1>>, <<st>>, <<rs>>), None) :
        st \in RequestStatusPool, rs \in ReviewSetPool }

\* what update_incidents may return
SinkStatusPool == {0, 1, 2}

SyncIdle ==
    /\ incidents = None
    /\ dry = FALSE
    /\ data = None
    /\ ret = None
    /\ sinkCalls = <<>>
    /\ sinkStatus = <<>>
    /\ returned = None
    /\ syncPc = "idle"

\* the state after SMELTSync.__init__ (lines 16-20)
SyncInit ==
    /\ incidents \in SeqUpTo(SyncIncidentPool, MaxIncidents)
    /\ dry \in BOOLEAN
    /\ data = None
    /\ ret = None
    /\ sinkCalls = <<>>
    /\ sinkStatus = <<>>
    /\ returned = None
    /\ syncPc = "start"

\* lines 23-27
CreateList ==
    /\ syncPc = "start"
    /\ data' = _create_list(incidents)
    /\ syncPc' = "created"
    /\ UNCHANGED <<incidents, dry, ret, sinkCalls, sinkStatus, returned>>
    /\ UNCHANGED <<incVars, gateVars, recVars>>

\* lines 29-30: update_incidents is called and answers with a status
UpdateIncidents ==
    /\ syncPc = "created"
    /\ syncs(dry)
    /\ \E status \in SinkStatusPool :
         /\ sinkCalls' = Append(sinkCalls, data)
         /\ sinkStatus' = Append(sinkStatus, status)
         /\ ret' = Some(status)
    /\ syncPc' = "synced"
    /\ UNCHANGED <<incidents, dry, data, returned>>
    /\ UNCHANGED <<incVars, gateVars, recVars>>

\* lines 31-33
DryRun ==
    /\ syncPc = "created"
    /\ ~syncs(dry)
    /\ ret' = Some(0)
    /\ syncPc' = "synced"
    /\ UNCHANGED <<incidents, dry, data, sinkCalls, sinkStatus, returned>>
    /\ UNCHANGED <<incVars, gateVars, recVars>>

\* line 35
Return ==
    /\ syncPc = "synced"
    /\ returned' = ret
    /\ syncPc' = "done"
    /\ UNCHANGED <<incidents, dry, data, ret, sinkCalls, sinkStatus>>
    /\ UNCHANGED <<incVars, gateVars, recVars>>

RecIdle ==
    /\ inc = None
    /\ record = None

\* one raw incident with at most MaxRequests requests, ids unique
RecInit ==
    /\ \E n \in 0..MaxRequests :
         \E ids \in IdOrders(n), st \in [1..n -> RequestStatusPool],
            rs \in [1..n -> ReviewSetPool], crd \in CrdPool :
              inc = SmeltIncident(RequestSet(n, ids, st, rs), crd)
    /\ record = None

\* _create_record applied to inc
CreateRecord ==
    /\ record = None
    /\ record' = Some(_create_record(inc))
    /\ UNCHANGED inc
    /\ UNCHANGED <<incVars, gateVars, syncVars>>

(***************************************************************************)
(* Specifications                                                          *)
(***************************************************************************)
SpecIncidentInit == IncInit /\ GateIdle /\ SyncIdle /\ RecIdle

SpecIncidentNext ==
    \/ ParseChannels
    \/ RaiseEmptyChannels
    \/ SortPackages
    \/ RaiseEmptyPackages
    \/ GroupChannels
    \/ QueryRevision
    \/ QueryNotFound
    \/ FinishInit

SpecIncident == SpecIncidentInit /\ [][SpecIncidentNext]_vars

SpecGateInit == GateInit /\ IncIdle /\ SyncIdle /\ RecIdle

SpecGateNext ==
    \/ FetchResults
    \/ FilterFailures
    \/ RaiseNoResults
    \/ ReturnFailures

SpecGate == SpecGateInit /\ [][SpecGateNext]_vars

SpecSyncInit == SyncInit /\ IncIdle /\ GateIdle /\ RecIdle

SpecSyncNext ==
    \/ CreateList
    \/ UpdateIncidents
    \/ DryRun
    \/ Return

SpecSync == SpecSyncInit /\ [][SpecSyncNext]_vars

SpecRecordInit == RecInit /\ IncIdle /\ GateIdle /\ SyncIdle

SpecRecordNext == CreateRecord

SpecRecord == SpecRecordInit /\ [][SpecRecordNext]_vars

(***************************************************************************)
(* Properties                                                              *)
(***************************************************************************)
\* the requests of inc whose status qualifies
Qualifying == {k \in 1..Len(inc.requestSet) : inc.requestSet[k].status.name \in ValidStatus}

\* the request of inc that the produced record names in rr_number
SelectedRequest ==
    inc.requestSet[CHOOSE k \in 1..Len(inc.requestSet) :
                       inc.requestSet[k].requestId = record[1].rr_number[1]]

\* C1: for a non-empty requestSet with unique ids, the record names the request
\* with the greatest requestId among those whose status is new, review,
\* accepted or revoked, and names none only when no request qualifies.
C1_SelectsMaxQualifying ==
    (record # None /\ inc.requestSet # <<>>) =>
        IF Qualifying = {}
        THEN record[1].rr_number = None
        ELSE /\ record[1].rr_number # None
             /\ \E k \in Qualifying :
                  /\ inc.requestSet[k].requestId = record[1].rr_number[1]
                  /\ \A j \in Qualifying :
                       inc.requestSet[j].requestId <= inc.requestSet[k].requestId

\* C2: for the selected request, inReviewQAM is true exactly when its reviewSet
\* holds some review assigned by group qam-openqa whose status is review or new,
\* wherever in the reviewSet that review stands.
C2_QamReviewAnywhere ==
    (record # None /\ record[1].rr_number # None) =>
        (record[1].inReviewQAM <=>
            \E k \in 1..Len(SelectedRequest.reviewSet) :
                LET r == SelectedRequest.reviewSet[k]
                IN  /\ r.assignedByGroup # None
                    /\ r.assignedByGroup[1].name = "qam-openqa"
                    /\ r.status.name \in {"review", "new"})

\* C3: after a successful construction no channel of the Incident has product
\* SLE-Module-Development-Tools-OBS.
C3_NoDevelopmentToolsChannel ==
    incPc = "constructed" =>
        \A k \in 1..Len(channels) :
            channels[k].product # "SLE-Module-Development-Tools-OBS"

\* job k of the results has a comment that marks it acceptable for the incident
Suppressed(k) ==
    \E c \in 1..Len(comments[results[k].job_id]) :
        acceptable_for_incident(comments[results[k].job_id][c].text, id)

\* C4: for a non-empty result list has_failures returns true exactly when some
\* result has a status other than "passed" and no acceptable-failure comment.
C4_FailureIffNotPassed ==
    gatePc = "returned" =>
        (hasFailures[1] <=>
            \E k \in 1..Len(results) :
                results[k].status # "passed" /\ ~Suppressed(k))

C5_State ==
    /\ (gatePc \in {"returned", "NoResultsError"} /\ results = <<>>) =>
           (gatePc = "NoResultsError" /\ hasFailures = None)
    /\ (gatePc \in {"returned", "NoResultsError"} /\ results # <<>>) =>
           gatePc = "returned"
    /\ (gatePc = "returned"
        /\ \A k \in 1..Len(results) : results[k].status = "passed" \/ Suppressed(k)) =>
           hasFailures = Some(FALSE)

C5_Step ==
    (gatePc = "filtered" /\ results = <<>>) => gatePc' = "NoResultsError"

\* C5: an empty result list ends has_failures in NoResultsError and never in a
\* returned value; a non-empty list whose jobs are all passed or suppressed
\* returns false without error.
C5_EmptyResultsRaise == []C5_State /\ [][C5_Step]_vars

C5_Witness ==
    /\ gatePc = "NoResultsError"
    /\ results = <<>>
    /\ hasFailures = None

C6_State ==
    /\ incPc = "constructed" => (channels # <<>> /\ packages # <<>>)
    /\ incPc = "EmptyChannels" => channels = <<>>
    /\ incPc = "EmptyPackagesError" => (incident.packages = <<>> /\ channels # <<>>)
    /\ incPc \in {"EmptyChannels", "EmptyPackagesError"} =>
           (answers = <<>> /\ revisions = None /\ livepatch = None)
    /\ incident.packages = <<>> =>
           (incPc \in {"start", "channels", "packages", "EmptyChannels",
                       "EmptyPackagesError"} /\ answers = <<>>)
    /\ (incPc # "start" /\ channels = <<>>) =>
           (incPc \in {"channels", "EmptyChannels"} /\ answers = <<>>)

C6_Step ==
    /\ (incPc = "channels" /\ channels = <<>>) => incPc' = "EmptyChannels"
    /\ (incPc = "packages" /\ incident.packages = <<>>) => incPc' = "EmptyPackagesError"

\* C6: construction fails with a structural error whenever the packages list is
\* empty and whenever the parsed and filtered channel list is empty
\* (EmptyChannels, or EmptyPackagesError once the channels passed their check),
\* so a constructed Incident has channels and packages, and a construction
\* that fails either check has issued no revision lookup.
C6_StructuralErrors == []C6_State /\ [][C6_Step]_vars

C6_Witness ==
    /\ incPc = "EmptyPackagesError"
    /\ incident.packages = <<>>
    /\ channels # <<>>
    /\ answers = <<>>

\* the record's revoked value, derived from the request the record names
RevokedOfSelected ==
    IF record[1].rr_number = None THEN FALSE
    ELSE SelectedRequest.reviewSet # <<>> /\ SelectedRequest.status.name = "revoked"

\* C7: every record has isActive = not (approved or revoked), revoked being
\* derived from the selected request; an empty requestSet gives inReview,
\* approved and inReviewQAM false, no rr_number and isActive true.
C7_IsActive ==
    record # None =>
        /\ record[1].isActive = ~(record[1].approved \/ RevokedOfSelected)
        /\ inc.requestSet = <<>> =>
              /\ record[1].inReview = FALSE
              /\ record[1].approved = FALSE
              /\ record[1].inReviewQAM = FALSE
              /\ record[1].rr_number = None
              /\ record[1].isActive = TRUE

C7_Witness ==
    /\ record # None
    /\ record[1].rr_number # None
    /\ RevokedOfSelected
    /\ ~record[1].approved
    /\ ~record[1].isActive

\* C8: livepatch is false whenever some package is a kernel-default,
\* kernel-source or kernel-azure package, wherever it stands in the list;
\* otherwise it is true exactly when some package is a kgraft-patch- or
\* kernel-livepatch package.
C8_LivepatchOrderFree ==
    incPc = "constructed" =>
        livepatch = Some(
            IF \E k \in 1..Len(packages) : is_kernel(packages[k])
            THEN FALSE
            ELSE \E k \in 1..Len(packages) : is_kgraft(packages[k]))

C8_Witness ==
    /\ incPc = "constructed"
    /\ livepatch = Some(FALSE)
    /\ \E k, j \in 1..Len(packages) :
         k < j /\ is_kgraft(packages[k]) /\ is_kernel(packages[j])

\* C9: a dry run never calls update_incidents and returns 0; any other run
\* calls it exactly once with all built records and returns its status.
C9_DryNeverSyncs ==
    /\ dry => sinkCalls = <<>>
    /\ Len(sinkCalls) <= 1
    /\ (syncPc = "done" /\ dry) => returned = Some(0)
    /\ (syncPc = "done" /\ ~dry) =>
           /\ Len(sinkCalls) = 1
           /\ Len(sinkCalls[1]) = Len(incidents)
           /\ \A k \in 1..Len(incidents) : sinkCalls[1][k] = _create_record(incidents[k])
           /\ returned = Some(sinkStatus[1])

C9_Witness ==
    /\ syncPc = "done"
    /\ ~dry
    /\ Len(incidents) = MaxIncidents
    /\ Len(sinkCalls) = 1
    /\ returned # Some(0)

\* C10: a not-found answer for any group ends construction in
\* NoRepoFoundError with no Incident and no revisions mapping, however many
\* groups were resolved before; when every query answers, the mapping holds a
\* group exactly when its answer was greater than 0, with that answer.
C10_Revisions ==
    /\ (\E k \in 1..Len(answers) : answers[k] = None) =>
           (incPc = "NoRepoFoundError" /\ answers[Len(answers)] = None)
    /\ incPc = "NoRepoFoundError" => (revisions = None /\ livepatch = None)
    /\ incPc = "constructed" =>
           /\ Len(answers) = Len(tmpdict)
           /\ \A k \in 1..Len(tmpdict) :
                /\ (tmpdict[k].key \in DOMAIN revisions[1]) <=> (answers[k][1] > 0)
                /\ (tmpdict[k].key \in DOMAIN revisions[1]) =>
                       revisions[1][tmpdict[k].key] = answers[k][1]
           /\ \A key \in DOMAIN revisions[1] :
                /\ revisions[1][key] > 0
                /\ \E k \in 1..Len(tmpdict) : tmpdict[k].key = key

C10_Witness ==
    /\ incPc = "NoRepoFoundError"
    /\ Len(answers) = 2
    /\ answers[1] # None
    /\ answers[1][1] > 0
    /\ DOMAIN rev # {}
    /\ revisions = None

====
